---- MODULE Spec2Model ----
(***************************************************************************)
(* A model of the cryojax image-formation pipeline                         *)
(* (cryojax/simulator/image.py, exposure.py, detector.py).                 *)
(*                                                                         *)
(* Images are small integer arrays.  scattering.shape is (1,2) and         *)
(* scattering.padded_shape is (2,2); an array is a record                  *)
(*   [sp |-> "F" | "R" | "none", d |-> row-major tuple of integers]        *)
(* whose shape is read off the length of d (2: shape, 4: padded_shape).    *)
(* On these shapes the discrete Fourier transform is real valued, so every *)
(* coefficient is an integer and conj(x) = x.                              *)
(***************************************************************************)
EXTENDS Integers, Sequences, FiniteSets, TLC

VARIABLES heap, hist, last

vars == <<heap, hist, last>>

(***************************************************************************)
(* Bounds of the model.                                                    *)
(***************************************************************************)
\* the number of update() calls made in one behaviour
MaxUpdates == 2

\* the largest pixel value of the images the exposure rescaling is tried on
MaxPixel == 1

(***************************************************************************)
(* Arrays.                                                                 *)
(***************************************************************************)
NoArray == [sp |-> "none", d |-> <<>>]

IsNone(a) == a.sp = "none"

\* a.shape == scattering.shape, the (1,2) grid
HasShape(a) == Len(a.d) = 2

\* a.shape == scattering.padded_shape, the (2,2) grid
HasPaddedShape(a) == Len(a.d) = 4

Zeros(n) == [i \in 1..n |-> 0]

\* the (unnormalised) discrete Fourier sum on a (1,2) or a (2,2) grid
Hadamard(d) ==
    IF Len(d) = 2 THEN <<d[1] + d[2], d[1] - d[2]>>
    ELSE <<d[1] + d[2] + d[3] + d[4], d[1] - d[2] + d[3] - d[4],
           d[1] + d[2] - d[3] - d[4], d[1] - d[2] - d[3] + d[4]>>

\* utils.fft: real space -> Fourier space
fft(a) == [sp |-> "F", d |-> Hadamard(a.d)]

\* utils.ifft: Fourier space -> real space (normalised by the element count)
ifft(a) ==
    [sp |-> "R", d |-> [i \in 1..Len(a.d) |-> Hadamard(a.d)[i] \div Len(a.d)]]

\* utils.irfft: the inverse transform of the real-input transform
irfft(a) == ifft(a)

\* scattering.crop: padded_shape -> shape, keeping the first row
crop(a) == [sp |-> a.sp, d |-> <<a.d[1], a.d[2]>>]

\* scattering.pad(image, constant_values=c): shape -> padded_shape
pad(a, c) == [sp |-> a.sp, d |-> <<a.d[1], a.d[2], c, c>>]

\* elementwise product with a 0/1 (or integer) multiplier array
Times(m, a) == [sp |-> a.sp, d |-> [i \in 1..Len(a.d) |-> m[i] * a.d[i]]]

\* image + image (equal shapes)
Plus(a, b) == [sp |-> a.sp, d |-> [i \in 1..Len(a.d) |-> a.d[i] + b.d[i]]]

\* image - image (equal shapes)
Minus(a, b) == [sp |-> a.sp, d |-> [i \in 1..Len(a.d) |-> a.d[i] - b.d[i]]]

Sum(d) == IF Len(d) = 2 THEN d[1] + d[2] ELSE d[1] + d[2] + d[3] + d[4]

Abs(x) == IF x < 0 THEN -x ELSE x

\* observed.mean() of a (1,2) real image
Mean(a) == Sum(a.d) \div Len(a.d)

\* observed.std() of a (1,2) real image: sqrt(((a-m)^2 + (b-m)^2)/2) = |a-b|/2
Std(a) == Abs(a.d[1] - a.d[2]) \div 2

(***************************************************************************)
(* exposure.py                                                             *)
(***************************************************************************)
\* rescale_image adding mu to the [0,0] coefficient without the N1*N2 factor
rescale_image_unscaled_offset(image, N, mu, real) ==
    IF real
    THEN [sp |-> image.sp, d |-> [i \in 1..Len(image.d) |-> N * image.d[i] + mu]]
    ELSE [sp |-> image.sp,
          d |-> [i \in 1..Len(image.d) |->
                    IF i = 1 THEN N * image.d[i] + mu ELSE N * image.d[i]]]

\* rescale_image(image, N, mu, real=...)
rescale_image(image, N, mu, real) ==
    IF real
    THEN [sp |-> image.sp, d |-> [i \in 1..Len(image.d) |-> N * image.d[i] + mu]]
    ELSE [sp |-> image.sp,
          d |-> [i \in 1..Len(image.d) |->
                    IF i = 1 THEN N * image.d[i] + mu * Len(image.d)
                    ELSE N * image.d[i]]]

\* UniformExposure.scale(image, real=False)
ExposureScale(state, image, real) == rescale_image(image, state.N, state.mu, real)

\* state.exposure.rescale(image) as image.py calls it: no real= argument,
\* so the default real=False is in force
ExposureRescale(state, image) == ExposureScale(state, image, FALSE)

(***************************************************************************)
(* Collaborators of the pipeline: parameter state, specimen, optics and    *)
(* noise sources.                                                          *)
(***************************************************************************)
NoState ==
    [pose |-> -1, N |-> 0, mu |-> 0, defocus |-> 0, magnification |-> 0,
     ice |-> "None", detector |-> "None"]

NoSpecimen == [name |-> "None", resolution |-> 0]

\* `state or self.state`
OrState(arg, held) == IF arg = NoState THEN held ELSE arg

\* `specimen or self.specimen`
OrSpecimen(arg, held) == IF arg = NoSpecimen THEN held ELSE arg

\* a parameter patch is a set of <<leaf name, value>> pairs
PatchHas(params, k) == \E e \in params : e[1] = k

PatchVal(params, k) == (CHOOSE e \in params : e[1] = k)[2]

\* PipelineState.update(**params): a new state, named leaves overwritten
StateUpdate(state, params) ==
    [k \in DOMAIN state |->
        IF PatchHas(params, k) THEN PatchVal(params, k) ELSE state[k]]

\* Specimen.update(**params)
SpecimenUpdate(specimen, params) ==
    [k \in DOMAIN specimen |->
        IF PatchHas(params, k) THEN PatchVal(params, k) ELSE specimen[k]]

\* specimen.view(pose).scatter(scattering): the Fourier-space projection on
\* the padded grid; pose 1 mirrors the columns
Scatter(specimen, pose) ==
    LET base == IF specimen.name = "A" THEN <<64, 32, 16, 16>>
                ELSE <<32, 16, 0, 16>>
        posed == IF pose = 0 THEN base
                 ELSE <<base[1], -base[2], base[3], -base[4]>>
    IN  [sp |-> "F", d |-> [i \in 1..4 |-> specimen.resolution * posed[i]]]

\* state.optics(freqs): the transfer function on a grid of n frequencies
CTF(state, n) ==
    IF state.defocus = 0 THEN [i \in 1..n |-> 1]
    ELSE [i \in 1..n |-> IF i \in {1, 4} THEN 1 ELSE -state.defocus]

\* state.optics.apply(ctf, image)
OpticsApply(ctf, image) == Times(ctf, image)

\* scattering.pixel_size
PixelSize == 2

\* padded_freqs / pixel_size: the grid the ice is drawn on (its number of
\* frequencies and the pixel size it is scaled by)
IceFreqs(state) == [n |-> 4, pixel |-> PixelSize]

\* freqs / effective_pixel_size, effective_pixel_size being
\* pixel_size * state.optics.magnification: the grid of the detector draw
DetectorFreqs(state) == [n |-> 2, pixel |-> PixelSize * state.magnification]

\* GaussianNoise.sample(freqs) of the ice, on the padded grid, for a key
IceDraw(key) ==
    [sp |-> "F", d |-> IF key = 1 THEN <<16, 0, 16, 0>> ELSE <<0, 32, 0, 16>>]

\* state.ice.sample(padded_freqs / pixel_size)
IceSample(state, key) ==
    IF state.ice = "Null" THEN [sp |-> "F", d |-> Zeros(4)] ELSE IceDraw(key)

\* GaussianNoise.sample(freqs) of the detector, on the unpadded grid
DetectorDraw(key) ==
    [sp |-> "F", d |-> IF key = 1 THEN <<8, 0>> ELSE <<0, 8>>]

\* a null detector returning ones instead of zeros
NullDetectorSampleOnes == [sp |-> "F", d |-> <<2, 2>>]

\* NullDetector.sample(freqs)
NullDetectorSample == [sp |-> "F", d |-> Zeros(2)]

\* GaussianDetector.sample(freqs)
GaussianDetectorSample(key) == irfft(DetectorDraw(key))

\* state.detector.sample(freqs / effective_pixel_size)
DetectorSampleDraw(state, key) ==
    IF state.detector = "Null" THEN NullDetectorSample
    ELSE GaussianDetectorSample(key)

(***************************************************************************)
(* image.py: Image                                                         *)
(***************************************************************************)
Levels == <<"Scattering", "Optics", "Detector", "Gaussian">>

\* LowpassFilter(scattering.padded_freqs, cutoff=0.667): drops the corner
Antialias == <<1, 1, 1, 0>>

RECURSIVE ApplyAll(_, _)
ApplyAll(ms, image) ==
    IF ms = <<>> THEN image ELSE ApplyAll(Tail(ms), Times(Head(ms), image))

\* Image.filter
Filter(self, image) == ApplyAll(self.filters, image)

\* Image.mask
Mask(self, image) == ApplyAll(self.masks, image)

\* the observed branch of Image.__post_init__ (lines 88-95), for an
\* instance holding the lists filters and masks
Preprocess(filters, masks, observed) ==
    LET o1   == irfft(observed)
        mean == Mean(o1)
        std  == Std(o1)
        o2   == fft(pad(o1, mean))
        o3   == crop(irfft(ApplyAll(filters, o2)))
        o4   == rescale_image(o3, std, mean, FALSE)
    IN  fft(ApplyAll(masks, o4))

\* Image.__post_init__ followed, at the Gaussian level, by the isinstance
\* assertions of GaussianImage.__post_init__
PostInit(level, state, specimen, filtersArg, masksArg, observed, set_observed) ==
    LET filters == IF filtersArg.given THEN filtersArg.list ELSE <<Antialias>>
        masks   == IF masksArg.given THEN masksArg.list ELSE <<>>
        run     == ~IsNone(observed) /\ set_observed
        inst(o) == [level |-> level, state |-> state, specimen |-> specimen,
                    filters |-> filters, masks |-> masks, observed |-> o,
                    set_observed |-> set_observed]
    IN  IF run /\ ~HasShape(observed)
        THEN [err |-> "AssertionError", inst |-> inst(NoArray), prep |-> 0]
        ELSE IF level = "Gaussian"
                /\ (state.ice # "Gaussian" \/ state.detector # "Gaussian")
        THEN [err |-> "AssertionError", inst |-> inst(NoArray), prep |-> 0]
        ELSE IF run
        THEN [err |-> "", inst |-> inst(Preprocess(filters, masks, observed)),
              prep |-> 1]
        ELSE [err |-> "", inst |-> inst(observed), prep |-> 0]

\* dataclass replace(): the constructor re-run on the instance's own fields
\* and init-only attributes, with the named ones changed
Replace(self, state, specimen, set_observed) ==
    PostInit(self.level, state, specimen,
             [given |-> TRUE, list |-> self.filters],
             [given |-> TRUE, list |-> self.masks],
             self.observed, set_observed)

\* Image.update as it would be without set_observed=False
UpdateRerunsPreprocessing(self, params) ==
    Replace(self, StateUpdate(self.state, params),
            SpecimenUpdate(self.specimen, params), TRUE)

\* Image.update(**params)
Update(self, params) ==
    Replace(self, StateUpdate(self.state, params),
            SpecimenUpdate(self.specimen, params), FALSE)

(***************************************************************************)
(* Evaluation.  Every method returns an outcome                            *)
(*   [err, img, val, proj, calls]:                                         *)
(* err is the exception raised ("" for none), img the returned image, val  *)
(* the returned scalar as <<numerator, denominator>>, proj the specimen    *)
(* and pose that were projected, calls the methods __call__ dispatched to. *)
(***************************************************************************)
NoVal == <<0, 0>>

NoProj == [specimen |-> NoSpecimen, pose |-> -1]

Raise(e) ==
    [err |-> e, img |-> NoArray, val |-> NoVal, proj |-> NoProj, calls |-> <<>>]

ReturnImage(image, proj) ==
    [err |-> "", img |-> image, val |-> NoVal, proj |-> proj, calls |-> <<>>]

ReturnScalar(v, proj) ==
    [err |-> "", img |-> NoArray, val |-> v, proj |-> proj, calls |-> <<>>]

\* the specimen that ScatteringImage.render poses and projects (line 196)
ProjectedSpecimen(self, specimen) == self.specimen

\* the crop/exposure/mask "view" step shared by both render methods
View(self, state, image) ==
    fft(Mask(self, ExposureRescale(state, crop(ifft(image)))))

\* ScatteringImage.render(state, specimen, view)
ScatteringRender(self, stateArg, specimenArg, view) ==
    LET state    == OrState(stateArg, self.state)
        specimen == OrSpecimen(specimenArg, self.specimen)
        posed    == ProjectedSpecimen(self, specimen)
        image    == Filter(self, Scatter(posed, state.pose))
    IN  ReturnImage(IF view THEN View(self, state, image) ELSE image,
                    [specimen |-> posed, pose |-> state.pose])

\* OpticsImage.render(state, specimen): it takes no view argument
OpticsRender(self, stateArg, specimenArg) ==
    LET state    == OrState(stateArg, self.state)
        specimen == OrSpecimen(specimenArg, self.specimen)
        inner    == ScatteringRender(self, state, specimen, FALSE)
        ctf      == CTF(state, 4)
        image    == OpticsApply(ctf, inner.img)
    IN  ReturnImage(View(self, state, image), inner.proj)

\* self.render(state=..., specimen=...), dispatched on the instance's class;
\* viewGiven says whether the caller passed view= at all
Render(self, stateArg, specimenArg, viewGiven, view) ==
    IF self.level = "Scattering"
    THEN ScatteringRender(self, stateArg, specimenArg, (~viewGiven) \/ view)
    ELSE IF viewGiven THEN Raise("TypeError")
    ELSE OpticsRender(self, stateArg, specimenArg)

\* the ice draw as ScatteringImage.sample treats it (lines 228-230)
ScatteringIce(self, state, key) ==
    fft(Mask(self, crop(ifft(Filter(self, IceSample(state, key))))))

\* the ice draw as OpticsImage.sample treats it (lines 298-302)
OpticsIce(self, state, key) ==
    LET ctf == CTF(state, 4)
        ice == OpticsApply(ctf, Filter(self, IceSample(state, key)))
    IN  fft(Mask(self, crop(ifft(ice))))

\* the detector draw as DetectorImage.sample treats it (lines 330-332)
DetectorNoise(self, state, key) ==
    fft(Mask(self, ifft(DetectorSampleDraw(state, key))))

\* ScatteringImage.sample(state, specimen)
ScatteringSample(self, stateArg, specimenArg, key) ==
    LET state    == OrState(stateArg, self.state)
        specimen == OrSpecimen(specimenArg, self.specimen)
        rendered == Render(self, state, specimen, FALSE, TRUE)
    IN  ReturnImage(Plus(rendered.img, ScatteringIce(self, state, key)),
                    rendered.proj)

\* OpticsImage.sample(state, specimen)
OpticsSample(self, stateArg, specimenArg, key) ==
    LET state    == OrState(stateArg, self.state)
        specimen == OrSpecimen(specimenArg, self.specimen)
        rendered == Render(self, state, specimen, FALSE, TRUE)
    IN  ReturnImage(Plus(rendered.img, OpticsIce(self, state, key)),
                    rendered.proj)

\* the specimen DetectorImage.sample hands to super().sample (line 328)
DetectorInnerSpecimen(specimen) == NoSpecimen

\* DetectorImage.sample(state, specimen)
DetectorSample(self, stateArg, specimenArg, key) ==
    LET state    == OrState(stateArg, self.state)
        specimen == OrSpecimen(specimenArg, self.specimen)
        icy      == OpticsSample(self, state, DetectorInnerSpecimen(specimen), key)
    IN  ReturnImage(Plus(icy.img, DetectorNoise(self, state, key)), icy.proj)

\* self.sample(state=..., specimen=...), dispatched on the instance's class
Sample(self, stateArg, specimenArg, key) ==
    IF self.level = "Scattering" THEN ScatteringSample(self, stateArg, specimenArg, key)
    ELSE IF self.level = "Optics" THEN OpticsSample(self, stateArg, specimenArg, key)
    ELSE DetectorSample(self, stateArg, specimenArg, key)

\* Image.residuals(state, specimen)
Residuals(self, stateArg, specimenArg) ==
    LET state     == OrState(stateArg, self.state)
        specimen  == OrSpecimen(specimenArg, self.specimen)
        simulated == Render(self, state, specimen, FALSE, TRUE)
    IN  IF IsNone(self.observed) THEN Raise("TypeError")
        ELSE IF Len(self.observed.d) # Len(simulated.img.d) THEN Raise("ShapeError")
        ELSE ReturnImage(Minus(self.observed, simulated.img), simulated.proj)

\* state.detector.variance(freqs / effective_pixel_size), a Constant kernel
DetectorVariance(state) == [i \in 1..2 |-> 2]

\* state.ice.variance(freqs / pixel_size), a Constant kernel
IceVariance(state) == [i \in 1..2 |-> 1]

\* the ice variance added to the detector variance without the CTF weight
VarianceUnweighted(state) ==
    IF state.ice # "Null"
    THEN [i \in 1..2 |-> DetectorVariance(state)[i] + IceVariance(state)[i]]
    ELSE DetectorVariance(state)

\* the per-frequency variance of GaussianImage.log_likelihood (lines 368-373)
Variance(state) ==
    IF state.ice # "Null"
    THEN [i \in 1..2 |->
            DetectorVariance(state)[i]
            + CTF(state, 2)[i] * CTF(state, 2)[i] * IceVariance(state)[i]]
    ELSE DetectorVariance(state)

\* GaussianImage.log_likelihood(state, specimen): the loss as an exact
\* fraction, sum_i r_i*conj(r_i)/(2*v_i) over the element count
GaussianLogLikelihood(self, stateArg, specimenArg) ==
    LET state    == OrState(stateArg, self.state)
        specimen == OrSpecimen(specimenArg, self.specimen)
        res      == Residuals(self, state, specimen)
        r        == res.img.d
        v        == Variance(state)
    IN  IF res.err # "" THEN res
        ELSE IF state.detector = "Null" THEN Raise("AttributeError")
        ELSE ReturnScalar(<<r[1] * r[1] * v[2] + r[2] * r[2] * v[1],
                            2 * v[1] * v[2] * Len(r)>>, res.proj)

\* log_likelihood also defined one level lower
LogLikelihoodFromDetector(self, stateArg, specimenArg) ==
    IF self.level \in {"Gaussian", "Detector"}
    THEN GaussianLogLikelihood(self, stateArg, specimenArg)
    ELSE Raise("NotImplementedError")

\* self.log_likelihood(state=..., specimen=...), dispatched on the class:
\* ScatteringImage.log_likelihood is inherited up to DetectorImage
LogLikelihood(self, stateArg, specimenArg) ==
    IF self.level = "Gaussian" THEN GaussianLogLikelihood(self, stateArg, specimenArg)
    ELSE Raise("NotImplementedError")

\* which method Image.__call__ dispatches to (line 139)
CallTarget(self) == IF IsNone(self.observed) THEN <<"sample">> ELSE <<"log_likelihood">>

\* __call__ evaluating with the held state
CallStateUnpatched(self, params) == self.state

\* the state Image.__call__ evaluates with (line 137)
CallState(self, params) == StateUpdate(self.state, params)

\* Image.__call__(params)
Call(self, params, key) ==
    LET state    == CallState(self, params)
        specimen == SpecimenUpdate(self.specimen, params)
        target   == CallTarget(self)
        out      == IF target = <<"sample">> THEN Sample(self, state, specimen, key)
                    ELSE LogLikelihood(self, state, specimen)
    IN  [out EXCEPT !.calls = target]

(***************************************************************************)
(* The same render and sample paths, statement by statement.  A traced     *)
(* value [img, trace] carries, next to the image, the operations that have *)
(* been applied to it in order:                                            *)
(*   [op, n, arg]                                                          *)
(* where n is the position in self.filters / self.masks (0 otherwise) and  *)
(* arg the space of the array the operation was handed.                    *)
(***************************************************************************)
\* the array a path starts from: a projection or a noise draw
Start(op, image) ==
    [img |-> image, trace |-> <<[op |-> op, n |-> 0, arg |-> "none"]>>]

\* one statement: op applied to x.img, giving image
Step(x, op, n, image) ==
    [img |-> image,
     trace |-> Append(x.trace, [op |-> op, n |-> n, arg |-> x.img.sp])]

\* the loop of Image.filter / Image.mask from position i on
RECURSIVE StepAll(_, _, _, _)
StepAll(x, op, ms, i) ==
    IF i > Len(ms) THEN x
    ELSE StepAll(Step(x, op, i, Times(ms[i], x.img)), op, ms, i + 1)

\* fft(self.mask(state.exposure.rescale(scattering.crop(ifft(image)))))
TracedView(self, state, x) ==
    LET a == Step(x, "ifft", 0, ifft(x.img))
        b == Step(a, "crop", 0, crop(a.img))
        c == Step(b, "exposure", 0, ExposureRescale(state, b.img))
        d == StepAll(c, "mask", self.masks, 1)
    IN  Step(d, "fft", 0, fft(d.img))

\* ScatteringImage.render(state, specimen, view), lines 196-208
TracedScatteringRender(self, state, view) ==
    LET p == Start("projection",
                   Scatter(ProjectedSpecimen(self, self.specimen), state.pose))
        f == StepAll(p, "filter", self.filters, 1)
    IN  IF view THEN TracedView(self, state, f) ELSE f

\* OpticsImage.render with the inner render left at its default view=True
TracedOpticsRenderViewedInner(self, state) ==
    LET inner == TracedScatteringRender(self, state, TRUE)
        c     == Step(inner, "ctf", 0, OpticsApply(CTF(state, 4), inner.img))
    IN  TracedView(self, state, c)

\* OpticsImage.render(state, specimen), lines 265-276
TracedOpticsRender(self, state) ==
    LET inner == TracedScatteringRender(self, state, FALSE)
        c     == Step(inner, "ctf", 0, OpticsApply(CTF(state, 4), inner.img))
    IN  TracedView(self, state, c)

\* self.render(state=state, specimen=specimen, [view=view]) without error
TracedRender(self, state, view) ==
    IF self.level = "Scattering" THEN TracedScatteringRender(self, state, view)
    ELSE TracedOpticsRender(self, state)

\* fft(self.mask(scattering.crop(ifft(ice))))
TracedNoiseView(self, x) ==
    LET a == Step(x, "ifft", 0, ifft(x.img))
        b == Step(a, "crop", 0, crop(a.img))
        d == StepAll(b, "mask", self.masks, 1)
    IN  Step(d, "fft", 0, fft(d.img))

\* the ice term of ScatteringImage.sample, lines 228-230
TracedScatteringIce(self, state, key) ==
    LET s == Start("ice", IceSample(state, key))
        f == StepAll(s, "filter", self.filters, 1)
    IN  TracedNoiseView(self, f)

\* the ice term of OpticsImage.sample, lines 298-302
TracedOpticsIce(self, state, key) ==
    LET s == Start("ice", IceSample(state, key))
        f == StepAll(s, "filter", self.filters, 1)
        c == Step(f, "ctf", 0, OpticsApply(CTF(state, 4), f.img))
    IN  TracedNoiseView(self, c)

\* state.detector.sample(freqs / effective_pixel_size): NullDetector.sample
\* returns zeros, GaussianDetector.sample returns irfft(super().sample(freqs))
TracedDetectorDraw(state, key) ==
    IF state.detector = "Null" THEN Start("detector", NullDetectorSample)
    ELSE LET s == Start("detector", DetectorDraw(key))
         IN  Step(s, "irfft", 0, irfft(s.img))

\* the detector term of DetectorImage.sample, lines 330-332
TracedDetectorNoise(self, state, key) ==
    LET s == TracedDetectorDraw(state, key)
        a == Step(s, "ifft", 0, ifft(s.img))
        d == StepAll(a, "mask", self.masks, 1)
    IN  Step(d, "fft", 0, fft(d.img))

\* the arrays self.sample sums, in the order they are added: the render,
\* the ice term of the level, the detector term from the Detector level up
SampleTerms(self, state, key) ==
    IF self.level = "Scattering"
    THEN <<TracedRender(self, state, TRUE), TracedScatteringIce(self, state, key)>>
    ELSE IF self.level = "Optics"
    THEN <<TracedRender(self, state, TRUE), TracedOpticsIce(self, state, key)>>
    ELSE <<TracedRender(self, state, TRUE), TracedOpticsIce(self, state, key),
           TracedDetectorNoise(self, state, key)>>

(***************************************************************************)
(* The inputs the operations are driven with.                              *)
(***************************************************************************)
SNull ==
    [pose |-> 0, N |-> 1, mu |-> 0, defocus |-> 0, magnification |-> 1,
     ice |-> "Null", detector |-> "Null"]

SGauss ==
    [pose |-> 0, N |-> 2, mu |-> 4, defocus |-> 1, magnification |-> 2,
     ice |-> "Gaussian", detector |-> "Gaussian"]

SMixed ==
    [pose |-> 1, N |-> 1, mu |-> 4, defocus |-> 0, magnification |-> 1,
     ice |-> "Null", detector |-> "Gaussian"]

\* the states a pipeline is constructed with
States == {SNull, SGauss}

SpecA == [name |-> "A", resolution |-> 1]

SpecB == [name |-> "B", resolution |-> 1]

\* the (state=, specimen=) arguments an evaluation is called with: both
\* omitted, either one supplied, both supplied
EvalArgs ==
    { [state |-> NoState, specimen |-> NoSpecimen],
      [state |-> SNull, specimen |-> NoSpecimen],
      [state |-> NoState, specimen |-> SpecB],
      [state |-> SMixed, specimen |-> SpecB] }

NotGiven == [given |-> FALSE, list |-> <<>>]

Given(list) == [given |-> TRUE, list |-> list]

HalfMask == <<1, 0>>

FullMask == <<1, 1>>

\* LowpassFilter(scattering.padded_freqs, cutoff=0.5): keeps the first row
Lowpass == <<1, 1, 0, 0>>

\* the filters= and masks= arguments of a construction
ListArgs ==
    { [filters |-> NotGiven, masks |-> NotGiven],
      [filters |-> Given(<<>>), masks |-> Given(<<HalfMask>>)],
      [filters |-> Given(<<Antialias, Lowpass>>),
       masks |-> Given(<<FullMask, HalfMask>>)] }

\* the parameter patches update() is called with
UpdatePatches ==
    { {<<"N", 3>>, <<"defocus", 2>>}, {<<"pose", 1>>, <<"resolution", 2>>} }

\* the parameter patches __call__ is called with; {} is its default
Patches == UpdatePatches \cup { {} }

Keys == {1, 2}

\* the observed= and set_observed= arguments of a construction
ObservedArgs ==
    { [choice |-> "none", set_observed |-> TRUE],
      [choice |-> "data", set_observed |-> TRUE],
      [choice |-> "padded", set_observed |-> TRUE],
      [choice |-> "render", set_observed |-> TRUE],
      [choice |-> "data", set_observed |-> FALSE],
      [choice |-> "padded", set_observed |-> FALSE] }

\* the observed array a construction is given: nothing, measured data of
\* shape scattering.shape, an array of the padded shape, or the noiseless
\* render of the pipeline's own state
ObservedInput(choice, level, state, specimen, filtersArg, masksArg) ==
    IF choice = "none" THEN NoArray
    ELSE IF choice = "data" THEN [sp |-> "F", d |-> <<16, 8>>]
    ELSE IF choice = "padded" THEN [sp |-> "F", d |-> <<16, 8, 0, 0>>]
    ELSE Render(PostInit(level, state, specimen, filtersArg, masksArg,
                         NoArray, TRUE).inst,
                NoState, NoSpecimen, FALSE, TRUE).img

(***************************************************************************)
(* The state machine.  heap holds the pipeline instances that exist, in    *)
(* order of creation; hist records, for each, where it came from; last is  *)
(* the most recent operation with its arguments and outcome.               *)
(***************************************************************************)
NoOut == Raise("")

NoLast ==
    [op |-> "none", self |-> 0, stateArg |-> NoState, specimenArg |-> NoSpecimen,
     viewGiven |-> FALSE, view |-> TRUE, params |-> {}, key |-> 0,
     level |-> "none", observedArg |-> NoArray, set_observed |-> TRUE,
     out |-> NoOut, ret |-> 0]

Refs == 1..Len(heap)

\* the instance the next operation is invoked on: the newest one.  Every
\* older instance was the newest one in an earlier state, and stays on the heap
Current == {Len(heap)} \ {0}

Init ==
    /\ heap = <<>>
    /\ hist = <<>>
    /\ last = NoLast

\* Image(state, specimen, scattering, filters=, masks=, observed=, set_observed=)
Construct ==
    /\ heap = <<>>
    /\ \E level \in {Levels[i] : i \in 1..4}, state \in States,
          lists \in ListArgs, obs \in ObservedArgs :
        LET observed == ObservedInput(obs.choice, level, state, SpecA,
                                      lists.filters, lists.masks)
            made     == PostInit(level, state, SpecA, lists.filters,
                                 lists.masks, observed, obs.set_observed)
        IN  /\ last' = [NoLast EXCEPT !.op = "construct", !.level = level,
                            !.observedArg = observed,
                            !.set_observed = obs.set_observed,
                            !.out = Raise(made.err),
                            !.ret = IF made.err = "" THEN 1 ELSE 0]
            /\ IF made.err = ""
               THEN /\ heap' = <<made.inst>>
                    /\ hist' = <<[parent |-> 0, params |-> {},
                                  preps |-> made.prep, raw |-> observed]>>
               ELSE UNCHANGED <<heap, hist>>

\* update() overwriting the instance it was called on
HeapAfterUpdateInPlace(h, self, inst) ==
    Append([h EXCEPT ![self] = inst], inst)

\* the heap after self.update(...) has built the instance made
HeapAfterUpdate(h, self, inst) == Append(h, inst)

\* new = pipeline.update(**params)
DoUpdate ==
    /\ Len(heap) >= 1
    /\ Len(heap) <= MaxUpdates
    /\ \E self \in Current, params \in UpdatePatches :
        LET made == Update(heap[self], params)
        IN  /\ made.err = ""
            /\ heap' = HeapAfterUpdate(heap, self, made.inst)
            /\ hist' = Append(hist, [parent |-> self, params |-> params,
                                     preps |-> hist[self].preps + made.prep,
                                     raw |-> hist[self].raw])
            /\ last' = [NoLast EXCEPT !.op = "update", !.self = self,
                            !.params = params, !.ret = Len(heap) + 1]

\* pipeline.render(state, specimen) and pipeline.render(state, specimen, view=v)
DoRender ==
    \E self \in Current, args \in EvalArgs,
       viewGiven \in BOOLEAN, view \in BOOLEAN :
        /\ (~viewGiven) => view
        /\ last' = [NoLast EXCEPT !.op = "render", !.self = self,
                        !.stateArg = args.state, !.specimenArg = args.specimen,
                        !.viewGiven = viewGiven, !.view = view,
                        !.out = Render(heap[self], args.state, args.specimen,
                                       viewGiven, view)]
        /\ UNCHANGED <<heap, hist>>

\* pipeline.sample(state, specimen)
DoSample ==
    \E self \in Current, args \in EvalArgs,
       key \in Keys :
        /\ last' = [NoLast EXCEPT !.op = "sample", !.self = self,
                        !.stateArg = args.state, !.specimenArg = args.specimen,
                        !.key = key,
                        !.out = Sample(heap[self], args.state, args.specimen, key)]
        /\ UNCHANGED <<heap, hist>>

\* pipeline.residuals(state, specimen)
DoResiduals ==
    \E self \in Current, args \in EvalArgs :
        /\ last' = [NoLast EXCEPT !.op = "residuals", !.self = self,
                        !.stateArg = args.state, !.specimenArg = args.specimen,
                        !.out = Residuals(heap[self], args.state, args.specimen)]
        /\ UNCHANGED <<heap, hist>>

\* pipeline.log_likelihood(state, specimen)
DoLogLikelihood ==
    \E self \in Current, args \in EvalArgs :
        /\ last' = [NoLast EXCEPT !.op = "log_likelihood", !.self = self,
                        !.stateArg = args.state, !.specimenArg = args.specimen,
                        !.out = LogLikelihood(heap[self], args.state, args.specimen)]
        /\ UNCHANGED <<heap, hist>>

\* pipeline(params)
DoCall ==
    \E self \in Current, params \in Patches, key \in Keys :
        /\ last' = [NoLast EXCEPT !.op = "call", !.self = self,
                        !.params = params, !.key = key,
                        !.out = Call(heap[self], params, key)]
        /\ UNCHANGED <<heap, hist>>

Next ==
    \/ Construct
    \/ DoUpdate
    \/ DoRender
    \/ DoSample
    \/ DoResiduals
    \/ DoLogLikelihood
    \/ DoCall

Spec == Init /\ [][Next]_vars

(***************************************************************************)
(* The exposure rescaling on its own: UniformExposure.scale applied to     *)
(* real images x (real=True) and to their transforms fft(x) (real=False).  *)
(***************************************************************************)
Pixels == 0..MaxPixel

RealImages ==
    {[sp |-> "R", d |-> <<a, b>>] : a \in Pixels, b \in Pixels}
    \cup {[sp |-> "R", d |-> <<p[1], p[2], p[3], p[4]>>] :
            p \in Pixels \X Pixels \X Pixels \X Pixels}

Exposures == {[N |-> n, mu |-> m] : n \in {1, 2, 3}, m \in {0, 1, -2}}

ExposureParams(e) == {<<"N", e.N>>, <<"mu", e.mu>>}

\* exposure.scale(x, real=True)
ScaleReal ==
    \E x \in RealImages, e \in Exposures :
        /\ last' = [NoLast EXCEPT !.op = "scale_real", !.observedArg = x,
                        !.params = ExposureParams(e),
                        !.out = ReturnImage(ExposureScale(e, x, TRUE), NoProj)]
        /\ UNCHANGED <<heap, hist>>

\* exposure.scale(fft(x), real=False)
ScaleFourier ==
    \E x \in RealImages, e \in Exposures :
        /\ last' = [NoLast EXCEPT !.op = "scale_fourier", !.observedArg = x,
                        !.params = ExposureParams(e),
                        !.out = ReturnImage(ExposureScale(e, fft(x), FALSE), NoProj)]
        /\ UNCHANGED <<heap, hist>>

NextRescale ==
    \/ ScaleReal
    \/ ScaleFourier

SpecRescale == Init /\ [][NextRescale]_vars

(***************************************************************************)
(* Properties.                                                             *)
(***************************************************************************)
Self == heap[last.self]

\* C1: update() returns an instance whose observed buffer, filter list and
\* mask list are those of the instance it was called on, and whose state and
\* specimen are the parent's with the patch applied; so after a construction
\* that preprocessed observed data, every instance of the lineage holds the
\* buffer of that single preprocessing run (it has been preprocessed once).
C1_UpdateKeepsObserved ==
    \A r \in Refs :
        /\ hist[r].parent # 0 =>
            LET parent == heap[hist[r].parent]
            IN  /\ heap[r].observed = parent.observed
                /\ heap[r].filters = parent.filters
                /\ heap[r].masks = parent.masks
                /\ heap[r].state = StateUpdate(parent.state, hist[r].params)
                /\ heap[r].specimen = SpecimenUpdate(parent.specimen, hist[r].params)
        /\ (heap[1].set_observed /\ ~IsNone(hist[1].raw)) =>
            /\ hist[r].preps = 1
            /\ heap[r].observed =
                   Preprocess(heap[1].filters, heap[1].masks, hist[1].raw)

\* C1 witness: two updates with different patches after a construction that
\* preprocessed observed data into a different buffer
C1_Witness ==
    /\ Len(heap) = 3
    /\ heap[1].set_observed
    /\ ~IsNone(hist[1].raw)
    /\ heap[3].observed # hist[1].raw
    /\ hist[2].params # hist[3].params
    /\ heap[3].state.N = 3
    /\ heap[3].specimen.resolution = 2

\* C2: update() does not mutate the instance it is called on: every instance
\* that existed before the call (the original included: state, specimen,
\* set_observed, observed) is the same after it, and the returned instance
\* is a new one carrying the patched values.
C2_UpdateDoesNotMutate ==
    [][last'.op = "update" =>
        /\ \A r \in Refs : heap'[r] = heap[r]
        /\ last'.ret \notin Refs
        /\ heap'[last'.ret].state
               = StateUpdate(heap[last'.self].state, last'.params)
        /\ heap'[last'.ret].specimen
               = SpecimenUpdate(heap[last'.self].specimen, last'.params)]_vars

\* C2 witness: an update whose result differs from the original in state and
\* in set_observed, the original still holding its observed buffer
C2_Witness ==
    /\ last.op = "update"
    /\ heap[last.ret].state # Self.state
    /\ Self.set_observed
    /\ ~heap[last.ret].set_observed
    /\ ~IsNone(Self.observed)

\* C3: __call__(params) evaluates with the patched state and specimen and
\* dispatches to exactly one of sample (no observed buffer held) and
\* log_likelihood (a buffer held); below the Gaussian level a call on a
\* pipeline that holds observed data ends in NotImplementedError.
C3_CallDispatch ==
    last.op = "call" =>
        LET state    == StateUpdate(Self.state, last.params)
            specimen == SpecimenUpdate(Self.specimen, last.params)
            sampled  == Sample(Self, state, specimen, last.key)
            loglik   == LogLikelihood(Self, state, specimen)
        IN  /\ IsNone(Self.observed) =>
                /\ last.out.calls = <<"sample">>
                /\ last.out.img = sampled.img
                /\ last.out.err = sampled.err
            /\ ~IsNone(Self.observed) =>
                /\ last.out.calls = <<"log_likelihood">>
                /\ last.out.val = loglik.val
                /\ last.out.err = loglik.err
            /\ last.out.err = "" => last.out.proj.pose = state.pose
            /\ (~IsNone(Self.observed) /\ Self.level # "Gaussian") =>
                last.out.err = "NotImplementedError"

\* C3 witness: a call with a pose patch on a Detector-level pipeline holding
\* observed data, ending in NotImplementedError
C3_Witness ==
    /\ last.op = "call"
    /\ Self.level = "Detector"
    /\ ~IsNone(Self.observed)
    /\ PatchHas(last.params, "pose")
    /\ last.out.err = "NotImplementedError"
    /\ last.out.calls = <<"log_likelihood">>

\* the state and the specimen the last evaluation was asked to use
AskedState ==
    IF last.op = "call" THEN StateUpdate(Self.state, last.params)
    ELSE OrState(last.stateArg, Self.state)

AskedSpecimen ==
    IF last.op = "call" THEN SpecimenUpdate(Self.specimen, last.params)
    ELSE OrSpecimen(last.specimenArg, Self.specimen)

EvalOps == {"render", "sample", "residuals", "log_likelihood", "call"}

\* C4: render, sample, residuals, log_likelihood and __call__ compute the
\* image from the supplied (for __call__: the patched) state and specimen,
\* and from the held ones only when the argument is omitted: the specimen
\* that is projected is the supplied one, posed with the supplied state's
\* pose.
C4_SuppliedSpecimenIsProjected ==
    (last.op \in EvalOps /\ last.out.proj # NoProj) =>
        last.out.proj = [specimen |-> AskedSpecimen, pose |-> AskedState.pose]

\* C5: log_likelihood raises NotImplementedError at the Scattering, Optics
\* and Detector levels, whatever the arguments and whether or not observed
\* data is held; a scalar is returned at the Gaussian level only.
C5_LogLikelihoodOnlyGaussian ==
    last.op = "log_likelihood" =>
        /\ Self.level # "Gaussian" =>
            /\ last.out.err = "NotImplementedError"
            /\ last.out.val = NoVal
        /\ last.out.val # NoVal => Self.level = "Gaussian"

\* C5 witness: log_likelihood with a supplied state and specimen on a
\* Detector-level pipeline that holds observed data
C5_Witness ==
    /\ last.op = "log_likelihood"
    /\ Self.level = "Detector"
    /\ ~IsNone(Self.observed)
    /\ last.stateArg # NoState
    /\ last.specimenArg # NoSpecimen
    /\ last.out.err = "NotImplementedError"

\* C6: a construction given an observed array whose shape is not
\* scattering.shape fails with a shape-mismatch (assertion) error and yields
\* no instance, also with set_observed=False; no instance ever holds such an
\* array.
C6_ShapeMismatchRejected ==
    /\ (last.op = "construct" /\ ~IsNone(last.observedArg)
            /\ ~HasShape(last.observedArg)) =>
        /\ last.out.err = "AssertionError"
        /\ last.ret = 0
    /\ \A r \in Refs : IsNone(heap[r].observed) \/ HasShape(heap[r].observed)

\* C7: when the ice and the detector of the state a sample is taken with are
\* both Null sources, sample returns exactly what render returns for the
\* same arguments, at every level; each noise term that was added is all
\* zeros after its filter/CTF/crop/mask treatment.
C7_NullNoiseIdentity ==
    (last.op = "sample" /\ AskedState.ice = "Null"
        /\ AskedState.detector = "Null") =>
        LET rendered == Render(Self, last.stateArg, last.specimenArg, FALSE, TRUE)
        IN  /\ last.out.err = ""
            /\ last.out.img = rendered.img
            /\ ScatteringIce(Self, AskedState, last.key).d = Zeros(2)
            /\ OpticsIce(Self, AskedState, last.key).d = Zeros(2)
            /\ DetectorNoise(Self, AskedState, last.key).d = Zeros(2)

\* C7 witness: a sample of a Detector-level pipeline whose own state has
\* Null ice and a Null detector, returning a non-zero image
C7_Witness ==
    /\ last.op = "sample"
    /\ Self.level = "Detector"
    /\ last.stateArg = NoState
    /\ Self.state.ice = "Null"
    /\ Self.state.detector = "Null"
    /\ last.out.err = ""
    /\ last.out.img.d # Zeros(2)

\* C8: a Gaussian-level pipeline constructed with observed data equal to
\* the noiseless render of its own state has log_likelihood(state) = 0: the
\* residual of the held observed buffer against render(state) is zero.
C8_NoiselessLikelihoodIsZero ==
    (/\ last.op = "log_likelihood"
     /\ Self.level = "Gaussian"
     /\ ~IsNone(hist[last.self].raw)
     /\ hist[last.self].raw
            = Render(Self, last.stateArg, last.specimenArg, FALSE, TRUE).img) =>
        /\ last.out.err = ""
        /\ last.out.val[1] = 0
        /\ last.out.val[2] # 0

NoiseTerms ==
    IF Self.level = "Scattering"
    THEN {ScatteringIce(Self, AskedState, last.key)}
    ELSE IF Self.level = "Optics"
    THEN {OpticsIce(Self, AskedState, last.key)}
    ELSE {OpticsIce(Self, AskedState, last.key),
          DetectorNoise(Self, AskedState, last.key)}

\* C10: at every level render returns an image of shape scattering.shape,
\* and the padded-shape image exactly when view=False is passed; the arrays
\* sample adds and the held observed buffer have shape scattering.shape too,
\* so no sum and no residual combines arrays of different shapes.
C10_ShapeInvariant ==
    /\ \A r \in Refs : IsNone(heap[r].observed) \/ HasShape(heap[r].observed)
    /\ last.op = "render" =>
        /\ last.out.err = ""
        /\ IF last.viewGiven /\ ~last.view
           THEN HasPaddedShape(last.out.img)
           ELSE HasShape(last.out.img)
    /\ last.op = "sample" =>
        /\ HasShape(last.out.img)
        /\ \A n \in NoiseTerms : HasShape(n)
    /\ last.op = "residuals" => last.out.err # "ShapeError"

\* the traced arrays of the last render (one) or sample (its summands)
LastTerms ==
    IF last.op = "render"
    THEN <<TracedRender(Self, AskedState, (~last.viewGiven) \/ last.view)>>
    ELSE SampleTerms(Self, AskedState, last.key)

RECURSIVE SumTerms(_)
SumTerms(terms) ==
    IF Len(terms) = 1 THEN terms[1].img
    ELSE Plus(terms[1].img, SumTerms(Tail(terms)))

\* an operation of a trace was handed an array of the space it works in
InItsSpace(step) ==
    /\ step.op \in {"ifft", "irfft"} => step.arg = "F"
    /\ step.op = "fft" => step.arg = "R"
    /\ step.op \in {"crop", "mask"} => step.arg = "R"
    /\ step.op \in {"filter", "ctf"} => step.arg = "F"

\* C11: in every render and sample path each inverse transform is applied
\* to a Fourier-space array, each forward transform to a real-space array,
\* crop and mask see real-space arrays, filters and the CTF Fourier-space
\* ones, and the arrays that are summed and returned are Fourier-space; in
\* particular the detector draw that DetectorImage.sample inverse-transforms
\* is a Fourier-space array, for the Null and for the Gaussian detector.
C11_FourierSpaceInvariant ==
    (last.op \in {"render", "sample"} /\ last.out.err = "") =>
        /\ last.out.img = SumTerms(LastTerms)
        /\ last.out.img.sp = "F"
        /\ \A k \in 1..Len(LastTerms) :
            /\ LastTerms[k].img.sp = "F"
            /\ \A j \in 1..Len(LastTerms[k].trace) :
                InItsSpace(LastTerms[k].trace[j])

\* the stages of a trace, the transforms between the spaces left out
IsStage(step) == step.op \notin {"ifft", "irfft", "fft"}

Stages(trace) ==
    LET kept == SelectSeq(trace, IsStage)
    IN  [j \in 1..Len(kept) |-> <<kept[j].op, kept[j].n>>]

\* the entries of a filter or mask list, in list order
ListStages(op, ms) == [i \in 1..Len(ms) |-> <<op, i>>]

\* how often a stage occurs among the stages
Occurrences(stage, stages) ==
    Cardinality({j \in 1..Len(stages) : stages[j] = stage})

\* C12: render at the Optics level and above applies projection, the
\* filters in list order, the CTF multiply, crop, exposure rescale and the
\* masks in list order, in this order, and crop, exposure rescale and each
\* mask exactly once (the inner Scattering-level render, called with
\* view=False, stops after the filters); at the Scattering level the order
\* is projection, filters, then with view=True crop, exposure, masks.
C12_RenderStageOrder ==
    (last.op = "render" /\ last.out.err = "") =>
        LET view   == (~last.viewGiven) \/ last.view
            traced == TracedRender(Self, AskedState, view)
            stages == Stages(traced.trace)
            head   == <<<<"projection", 0>>>> \o ListStages("filter", Self.filters)
            tail   == <<<<"crop", 0>>, <<"exposure", 0>>>>
                          \o ListStages("mask", Self.masks)
        IN  /\ last.out.img = traced.img
            /\ Self.level # "Scattering" =>
                stages = head \o <<<<"ctf", 0>>>> \o tail
            /\ (Self.level = "Scattering" /\ view) => stages = head \o tail
            /\ (Self.level = "Scattering" /\ ~view) => stages = head
            /\ (Self.level # "Scattering" \/ view) =>
                /\ Occurrences(<<"crop", 0>>, stages) = 1
                /\ Occurrences(<<"exposure", 0>>, stages) = 1
                /\ \A i \in 1..Len(Self.masks) :
                    Occurrences(<<"mask", i>>, stages) = 1
            /\ Stages(TracedScatteringRender(Self, AskedState, FALSE).trace) = head

\* C12 witness: a render of an Optics-level pipeline holding two filters and
\* two masks, with a non-zero exposure offset and a non-trivial CTF
C12_Witness ==
    /\ last.op = "render"
    /\ last.out.err = ""
    /\ Self.level = "Optics"
    /\ Len(Self.filters) = 2
    /\ Len(Self.masks) = 2
    /\ AskedState.mu # 0
    /\ AskedState.defocus # 0
    /\ last.out.img.d # Zeros(2)

\* the ice draw treated like the signal: filters, the CTF multiply from the
\* Optics level up, crop, masks
TreatedIce(self, state, key) ==
    LET f == ApplyAll(self.filters, IceSample(state, key))
        c == IF self.level = "Scattering" THEN f ELSE Times(CTF(state, 4), f)
    IN  fft(ApplyAll(self.masks, crop(ifft(c))))

\* the Fourier-space detector draw masked like the signal
TreatedDetector(self, state, key) ==
    LET draw == IF state.detector = "Null" THEN NullDetectorSample
                ELSE DetectorDraw(key)
    IN  fft(ApplyAll(self.masks, ifft(draw)))

\* C13: sample returns the render plus one draw per noise source of the
\* level, each treated like the signal at its plane: the ice draw, taken on
\* the padded grid at pixel_size, goes through the filters, the CTF multiply
\* (Optics level and above), crop and the masks; the detector draw
\* (Detector level and above), taken on the unpadded grid at
\* pixel_size * magnification, is masked in real space; no term is added
\* twice or left out.
C13_NoiseTreatment ==
    (last.op = "sample" /\ last.out.err = "") =>
        LET rendered == Render(Self, last.stateArg, last.specimenArg, FALSE, TRUE)
            ice      == TreatedIce(Self, AskedState, last.key)
            detector == TreatedDetector(Self, AskedState, last.key)
            noise    == IF Self.level \in {"Scattering", "Optics"} THEN ice
                        ELSE Plus(ice, detector)
        IN  /\ last.out.img = Plus(rendered.img, noise)
            /\ Len(IceSample(AskedState, last.key).d) = IceFreqs(AskedState).n
            /\ IceFreqs(AskedState).pixel = PixelSize
            /\ Self.level \notin {"Scattering", "Optics"} =>
                /\ Len(DetectorSampleDraw(AskedState, last.key).d)
                       = DetectorFreqs(AskedState).n
                /\ DetectorFreqs(AskedState).pixel
                       = PixelSize * AskedState.magnification

\* C14: GaussianImage.log_likelihood returns, for the residual r = observed
\* - render(state, specimen) and the variance v = detector variance plus, if
\* and only if the ice is not a Null source, CTF^2 times the ice variance,
\* the sum over the frequencies of r*conj(r)/(2*v) divided by the number of
\* residual elements; with Null ice v is the detector variance alone.
C14_GaussianLikelihood ==
    (last.op = "log_likelihood" /\ Self.level = "Gaussian" /\ last.out.err = "") =>
        LET rendered == Render(Self, last.stateArg, last.specimenArg, FALSE, TRUE)
            r   == Minus(Self.observed, rendered.img).d
            det == DetectorVariance(AskedState)
            ice == IceVariance(AskedState)
            ctf == CTF(AskedState, 2)
            v   == [i \in 1..2 |->
                       IF AskedState.ice # "Null"
                       THEN det[i] + ctf[i] * ctf[i] * ice[i]
                       ELSE det[i]]
            \* r1^2/(2 v1) + r2^2/(2 v2), over the element count, as a fraction
            num == r[1] * r[1] * v[2] + r[2] * r[2] * v[1]
            den == 2 * v[1] * v[2] * Len(r)
        IN  /\ Len(r) = 2
            /\ last.out.val[2] > 0
            /\ last.out.val[1] * den = last.out.val[2] * num
            /\ AskedState.ice = "Null" => v = det

\* C14 witness: a log_likelihood of a Gaussian-level pipeline whose state
\* has Gaussian ice and a CTF of magnitude 2 at one frequency, the residual
\* being non-zero there
C14_Witness ==
    /\ last.op = "log_likelihood"
    /\ Self.level = "Gaussian"
    /\ last.out.err = ""
    /\ AskedState.ice = "Gaussian"
    /\ AskedState.defocus = 2
    /\ Minus(Self.observed,
             Render(Self, last.stateArg, last.specimenArg, FALSE, TRUE).img).d[2] # 0
    /\ last.out.val[1] > 0

\* the observed preprocessing with the real-space formula in its rescale
PreprocessRealSpace(filters, masks, observed) ==
    LET o1   == irfft(observed)
        mean == Mean(o1)
        std  == Std(o1)
        o3   == crop(irfft(ApplyAll(filters, fft(pad(o1, mean)))))
    IN  fft(ApplyAll(masks, rescale_image(o3, std, mean, TRUE)))

\* C15: the view step of render and the observed preprocessing hand a
\* cropped real-space image to the exposure rescale and rescale it with the
\* real-space formula: the offset (mu, respectively the observed mean) is
\* added to every pixel of the image, not to its [0,0] element only.
C15_RescaleMatchesSpace ==
    /\ (last.op = "render" /\ last.out.err = ""
            /\ ((~last.viewGiven) \/ last.view)) =>
        LET inner   == ScatteringRender(Self, last.stateArg, last.specimenArg, FALSE)
            image   == IF Self.level = "Scattering" THEN inner.img
                       ELSE OpticsApply(CTF(AskedState, 4), inner.img)
            cropped == crop(ifft(image))
        IN  /\ cropped.sp = "R"
            /\ last.out.img
                   = fft(Mask(Self, ExposureScale(AskedState, cropped, TRUE)))
    /\ (last.op = "construct" /\ last.ret = 1 /\ last.set_observed
            /\ ~IsNone(last.observedArg)) =>
        heap[1].observed
            = PreprocessRealSpace(heap[1].filters, heap[1].masks, last.observedArg)

====
